---- MODULE Spec2Model ----
(***************************************************************************)
(* Model of app.py: a Streamlit script that extracts the page texts of     *)
(* uploaded PDFs, chunks and indexes them, answers questions from the      *)
(* three nearest chunks and draws an entity-adjacency graph.  Streamlit    *)
(* executes the script top to bottom on every interaction; only widget     *)
(* values survive from one execution to the next.                          *)
(*                                                                         *)
(* A text is a sequence of words (the empty sequence is the empty string). *)
(***************************************************************************)
EXTENDS Integers, Sequences, FiniteSets

\* ------------------------------------------------------------ bounds
MaxUpload == 2        \* files in one selection of the upload widget
MaxFiles == 2         \* files handed to extract_text_from_pdfs (SpecExtract)
MaxPages == 2         \* pages per generated file (SpecExtract)
MaxTexts == 2         \* texts handed to extract_triples (SpecGraph)
MaxChunks == 4        \* chunks of a generated index (SpecAsk)
MaxGenerations == 2   \* entries in the list the generation pipeline returns

\* ------------------------------------------------------------ program constants
K == 3                \* similarity_search(question, k=3)

Predicate == "related_to"

PromptHead == "\nAnswer ONLY from the context below.\nIf not found, say \"Answer not found in the documents.\"\n\nContext:\n"

PromptMid == "\n\nQuestion:\n"

PromptTail == "\n\nAnswer:\n"

NL == "\n"

\* ------------------------------------------------------------ helpers
Range(s) == {s[i] : i \in DOMAIN s}

RECURSIVE Flatten(_)
Flatten(ss) ==
    IF ss = <<>> THEN <<>> ELSE Head(ss) \o Flatten(Tail(ss))

RECURSIVE SumSeq(_)
SumSeq(s) ==
    IF s = <<>> THEN 0 ELSE Head(s) + SumSeq(Tail(s))

SeqsUpTo(S, n) == UNION {[1..m -> S] : m \in 0..n}

\* ------------------------------------------------------------ models (lines 16-26)
\* Words the NER pipeline recognises as entities; "met" is an ordinary word.
\* "Alice" and "alice" are different surface strings.
EntityWords == {"Alice", "Bob", "Paris", "alice"}

Vocabulary == <<"Alice", "Bob", "Paris", "alice", "met">>

\* nlp(text).ents: the recognised entity strings in document order, duplicates kept.
NlpEnts(text) ==
    SelectSeq(text, LAMBDA w : w \in EntityWords)

\* embedding_model: a fixed pure function of the text, here the vector of
\* word counts over the vocabulary.
Embed(text) ==
    [n \in DOMAIN Vocabulary |->
        Cardinality({i \in DOMAIN text : text[i] = Vocabulary[n]})]

\* Squared L2 distance, the metric of the flat FAISS index: smaller is more similar.
Distance(u, v) ==
    SumSeq([n \in DOMAIN u |-> (u[n] - v[n]) * (u[n] - v[n])])

NotFound == <<"Answer", "not", "found", "in", "the", "documents.">>

Generations == {NotFound, <<"Bob">>}

\* llm(prompt): a non-empty list of {"generated_text": ...} records.
LlmResults ==
    UNION {[1..m -> [generated_text : Generations]] : m \in 1..MaxGenerations}

\* ------------------------------------------------------------ PDF handling (lines 30-43)
\* Variant: an unreadable file is skipped as if it had no pages.
PdfReader_lenient(file) ==
    [ok |-> TRUE, pages |-> IF file.readable THEN file.pages ELSE <<>>]

\* PdfReader(file): raises on an unreadable file, otherwise exposes the pages.
PdfReader(file) ==
    IF file.readable THEN [ok |-> TRUE, pages |-> file.pages]
                     ELSE [ok |-> FALSE, pages |-> <<>>]

\* Variant: pages without text are left out.
PageTextsOf_nonempty(texts, pages) ==
    texts \o SelectSeq(pages, LAMBDA t : t # <<>>)

\* for page in reader.pages: texts.append(page.extract_text())
PageTextsOf(texts, pages) ==
    texts \o [p \in DOMAIN pages |-> pages[p]]

\* RecursiveCharacterTextSplitter.split_text on a text shorter than chunk_size:
\* the text itself, and nothing for an empty text.
SplitText(text) ==
    IF text = <<>> THEN <<>> ELSE <<text>>

\* splitter.create_documents(texts): one Document per chunk, in text order.
ChunkText(texts) ==
    LET chunks == Flatten([t \in DOMAIN texts |-> SplitText(texts[t])])
    IN  [c \in DOMAIN chunks |-> [page_content |-> chunks[c]]]

\* ------------------------------------------------------------ vector store (lines 47-48)
NoIndex == [docs |-> <<>>, vecs |-> <<>>]

\* Variant: an empty document list gives an empty index.
FromDocumentsRaises_never(docs) == FALSE

\* FAISS.from_documents raises IndexError on an empty document list
\* (it sizes the index from the first embedding).
FromDocumentsRaises(docs) == docs = <<>>

CreateVectorStore(docs) ==
    [docs |-> docs, vecs |-> [d \in DOMAIN docs |-> Embed(docs[d].page_content)]]

\* ------------------------------------------------------------ retrieval (lines 52-69)
\* The flat index search: the positions of the k nearest vectors, nearest
\* first; fewer than k when the index holds fewer.
RECURSIVE Nearest(_, _, _, _)
Nearest(vecs, q, k, taken) ==
    LET rest == DOMAIN vecs \ taken
    IN  IF k = 0 \/ rest = {} THEN <<>>
        ELSE LET best == CHOOSE i \in rest : \A j \in rest :
                             \/ Distance(vecs[i], q) < Distance(vecs[j], q)
                             \/ /\ Distance(vecs[i], q) = Distance(vecs[j], q)
                                /\ i <= j
             IN  <<best>> \o Nearest(vecs, q, k - 1, taken \cup {best})

SimilaritySearch(db, question, k) ==
    LET I == Nearest(db.vecs, Embed(question), k, {})
    IN  [n \in DOMAIN I |-> db.docs[I[n]]]

\* Variant: k=2.
Retrieve_k2(db, question) == SimilaritySearch(db, question, K - 1)

Retrieve(db, question) == SimilaritySearch(db, question, K)

\* llm(prompt)[0]["generated_text"]
FirstGeneration(out) == out[1].generated_text

\* "\n".join(parts)
RECURSIVE JoinNL(_)
JoinNL(parts) ==
    IF parts = <<>> THEN <<>>
    ELSE IF Len(parts) = 1 THEN parts[1]
    ELSE parts[1] \o <<NL>> \o JoinNL(Tail(parts))

\* Variant: the context lists the chunks farthest first.
BuildPrompt_farthestfirst(found, question) ==
    LET rev == [i \in DOMAIN found |-> found[Len(found) + 1 - i]]
        context == JoinNL([d \in DOMAIN rev |-> rev[d].page_content])
    IN  <<PromptHead>> \o context \o <<PromptMid>> \o question \o <<PromptTail>>

BuildPrompt(found, question) ==
    LET context == JoinNL([d \in DOMAIN found |-> found[d].page_content])
    IN  <<PromptHead>> \o context \o <<PromptMid>> \o question \o <<PromptTail>>

\* ------------------------------------------------------------ knowledge graph (lines 73-87)
PairsOf(entities) ==
    [i \in 1..(Len(entities) - 1) |-> <<entities[i], Predicate, entities[i + 1]>>]

\* Variant: the entity lists of all texts are chained into one.
ExtractTriples_chained(texts) ==
    PairsOf(Flatten([t \in DOMAIN texts |-> NlpEnts(texts[t])]))

RECURSIVE ExtractTriples(_)
ExtractTriples(texts) ==
    IF texts = <<>> THEN <<>>
    ELSE PairsOf(NlpEnts(Head(texts))) \o ExtractTriples(Tail(texts))

EmptyGraph == [node |-> <<>>, adj |-> [n \in {} |-> [m \in {} |-> ""]]]

Put(f, k, v) == [x \in DOMAIN f \cup {k} |-> IF x = k THEN v ELSE f[x]]

\* Variant: the new edge replaces the neighbours u had.
AddEdge_replace(G, u, v, p) ==
    LET node1 == IF u \in Range(G.node) THEN G.node ELSE Append(G.node, u)
        node2 == IF v \in Range(node1) THEN node1 ELSE Append(node1, v)
        old(n) == IF n \in DOMAIN G.adj THEN G.adj[n] ELSE [m \in {} |-> ""]
    IN  [node |-> node2,
         adj |-> [n \in Range(node2) |->
                    LET a == IF n = u THEN Put([m \in {} |-> ""], v, p) ELSE old(n)
                    IN  IF n = v THEN Put(a, u, p) ELSE a]]

\* nx.Graph.add_edge(u, v, label=p): both endpoints become nodes (in first-seen
\* order) and the attribute is stored under adj[u][v] and adj[v][u].
AddEdge(G, u, v, p) ==
    LET node1 == IF u \in Range(G.node) THEN G.node ELSE Append(G.node, u)
        node2 == IF v \in Range(node1) THEN node1 ELSE Append(node1, v)
        old(n) == IF n \in DOMAIN G.adj THEN G.adj[n] ELSE [m \in {} |-> ""]
    IN  [node |-> node2,
         adj |-> [n \in Range(node2) |->
                    LET a == IF n = u THEN Put(old(n), v, p) ELSE old(n)
                    IN  IF n = v THEN Put(a, u, p) ELSE a]]

RECURSIVE AddAll(_, _)
AddAll(G, triples) ==
    IF triples = <<>> THEN G
    ELSE AddAll(AddEdge(G, triples[1][1], triples[1][3], triples[1][2]), Tail(triples))

BuildGraph(triples) == AddAll(EmptyGraph, triples)

\* ------------------------------------------------------------ inputs
\* The PDFs the user can pick: a file is readable or not, and a readable file
\* has a sequence of pages, each with its extractable text.
PdfA == [readable |-> TRUE, pages |-> << <<"Alice", "met", "Bob">>, <<>> >>]

PdfB == [readable |-> TRUE, pages |-> << <<"Bob", "Paris", "Paris">> >>]

PdfScan == [readable |-> TRUE, pages |-> << <<>> >>]

PdfZero == [readable |-> TRUE, pages |-> <<>>]

PdfBad == [readable |-> FALSE, pages |-> <<>>]

UserFiles == {PdfA, PdfB, PdfScan, PdfZero, PdfBad}

Uploads == SeqsUpTo(UserFiles, MaxUpload)

Questions == {<<>>, <<"Bob">>, <<"Paris", "met">>}

\* ------------------------------------------------------------ state
VARIABLES
    uploaded_files,  \* value of st.file_uploader (line 94)
    question,        \* value of st.text_input (line 114)
    button,          \* value of st.button in this execution (line 123)
    rendered,        \* widgets the current/last execution has put on the page
    trigger,         \* the interaction that started the current execution
    dropped,         \* the last upload removed a text the index before it held
    pc,              \* position of the script
    error,           \* uncaught exception that ended the execution
    ran,             \* functions that have returned in this execution
    fi, acc,         \* extract_text_from_pdfs: file index and its local list
    texts, docs, vector_db, triples, graph,   \* script globals (lines 103-108)
    aq_docs, prompt, llm_out,                 \* ask_question locals
    answer, sources,                          \* line 117
    figure                                    \* the graph drawn (lines 124-131)

vars == <<uploaded_files, question, button, rendered, trigger, dropped, pc, error,
          ran, fi, acc, texts, docs, vector_db, triples, graph, aq_docs, prompt,
          llm_out, answer, sources, figure>>

NoResult == << [generated_text |-> <<>>] >>

\* Every execution runs the script from its first line in a fresh namespace.
StartPc(trig) == "L100"

\* Variant: texts, docs, index and graph are kept from the execution before.
FreshNamespace_keep ==
    /\ fi' = 1
    /\ acc' = <<>>
    /\ UNCHANGED <<texts, docs, vector_db, triples, graph>>
    /\ aq_docs' = <<>>
    /\ prompt' = <<>>
    /\ llm_out' = NoResult
    /\ answer' = <<>>
    /\ sources' = <<>>
    /\ figure' = EmptyGraph
    /\ ran' = {}
    /\ error' = "none"
    /\ rendered' = {}

FreshNamespace ==
    /\ fi' = 1
    /\ acc' = <<>>
    /\ texts' = <<>>
    /\ docs' = <<>>
    /\ vector_db' = NoIndex
    /\ triples' = <<>>
    /\ graph' = EmptyGraph
    /\ aq_docs' = <<>>
    /\ prompt' = <<>>
    /\ llm_out' = NoResult
    /\ answer' = <<>>
    /\ sources' = <<>>
    /\ figure' = EmptyGraph
    /\ ran' = {}
    /\ error' = "none"
    /\ rendered' = {}

Rerun(trig) ==
    /\ trigger' = trig
    /\ pc' = StartPc(trig)
    /\ FreshNamespace

\* The namespace and the page before the script has run.
Blank ==
    /\ button = FALSE
    /\ rendered = {}
    /\ dropped = FALSE
    /\ error = "none"
    /\ ran = {}
    /\ fi = 1
    /\ acc = <<>>
    /\ docs = <<>>
    /\ triples = <<>>
    /\ graph = EmptyGraph
    /\ aq_docs = <<>>
    /\ prompt = <<>>
    /\ llm_out = NoResult
    /\ answer = <<>>
    /\ sources = <<>>
    /\ figure = EmptyGraph

\* The session opens with nothing uploaded; the first execution has ended.
Init ==
    /\ Blank
    /\ uploaded_files = <<>>
    /\ question = <<>>
    /\ trigger = "start"
    /\ pc = "idle"
    /\ texts = <<>>
    /\ vector_db = NoIndex

\* ------------------------------------------------------------ interactions
\* The user changes the selection of the file uploader.
Upload ==
    /\ pc = "idle"
    /\ \E fs \in Uploads :
        /\ fs # uploaded_files
        /\ uploaded_files' = fs
        /\ dropped' = \E d \in DOMAIN vector_db.docs :
                         \A f \in DOMAIN fs : \A p \in DOMAIN fs[f].pages :
                             fs[f].pages[p] # vector_db.docs[d].page_content
    /\ button' = FALSE
    /\ Rerun("upload")
    /\ UNCHANGED question

\* The user submits a new value in the text input.
SubmitQuestion ==
    /\ pc = "idle"
    /\ "text_input" \in rendered
    /\ \E q \in Questions :
        /\ q # question
        /\ question' = q
    /\ button' = FALSE
    /\ Rerun("question")
    /\ UNCHANGED <<uploaded_files, dropped>>

\* The user presses "Show Knowledge Graph".
PressButton ==
    /\ pc = "idle"
    /\ "button" \in rendered
    /\ button' = TRUE
    /\ Rerun("button")
    /\ UNCHANGED <<uploaded_files, question, dropped>>

\* ------------------------------------------------------------ the script
\* line 100: if uploaded_files.  With nothing uploaded the script ends without
\* rendering the text input, whose value Streamlit then forgets.
IfUploadedFiles ==
    /\ pc = "L100"
    /\ IF uploaded_files = <<>>
         THEN /\ pc' = "idle"
              /\ question' = <<>>
         ELSE /\ pc' = "extract"
              /\ UNCHANGED question
    /\ UNCHANGED <<uploaded_files, button, rendered, trigger, dropped, error, ran,
                   fi, acc, texts, docs, vector_db, triples, graph, aq_docs, prompt,
                   llm_out, answer, sources, figure>>

\* lines 32-35: one iteration of the loop over the files.
ExtractFile ==
    /\ pc = "extract"
    /\ fi <= Len(uploaded_files)
    /\ LET reader == PdfReader(uploaded_files[fi])
       IN  IF reader.ok
             THEN /\ acc' = PageTextsOf(acc, reader.pages)
                  /\ fi' = fi + 1
                  /\ UNCHANGED <<pc, error, button>>
             ELSE /\ error' = "PdfReadError"
                  /\ pc' = "idle"
                  /\ acc' = <<>>
                  /\ button' = FALSE
                  /\ UNCHANGED fi
    /\ UNCHANGED <<uploaded_files, question, rendered, trigger, dropped, ran,
                   texts, docs, vector_db, triples, graph, aq_docs, prompt,
                   llm_out, answer, sources, figure>>

\* line 36 and line 103: return texts.
ExtractReturn ==
    /\ pc = "extract"
    /\ fi > Len(uploaded_files)
    /\ texts' = acc
    /\ acc' = <<>>
    /\ ran' = ran \cup {"extract_text_from_pdfs"}
    /\ pc' = "chunk"
    /\ UNCHANGED <<uploaded_files, question, button, rendered, trigger, dropped,
                   error, fi, docs, vector_db, triples, graph, aq_docs, prompt,
                   llm_out, answer, sources, figure>>

\* line 104
ChunkStep ==
    /\ pc = "chunk"
    /\ docs' = ChunkText(texts)
    /\ ran' = ran \cup {"chunk_text"}
    /\ pc' = "index"
    /\ UNCHANGED <<uploaded_files, question, button, rendered, trigger, dropped,
                   error, fi, acc, texts, vector_db, triples, graph, aq_docs, prompt,
                   llm_out, answer, sources, figure>>

\* line 105
IndexStep ==
    /\ pc = "index"
    /\ IF FromDocumentsRaises(docs)
         THEN /\ error' = "IndexError"
              /\ pc' = "idle"
              /\ button' = FALSE
              /\ UNCHANGED <<vector_db, ran>>
         ELSE /\ vector_db' = CreateVectorStore(docs)
              /\ ran' = ran \cup {"create_vector_store"}
              /\ pc' = "triples"
              /\ UNCHANGED <<error, button>>
    /\ UNCHANGED <<uploaded_files, question, rendered, trigger, dropped,
                   fi, acc, texts, docs, triples, graph, aq_docs, prompt,
                   llm_out, answer, sources, figure>>

\* line 107
TriplesStep ==
    /\ pc = "triples"
    /\ triples' = ExtractTriples(texts)
    /\ ran' = ran \cup {"extract_triples"}
    /\ pc' = "graph"
    /\ UNCHANGED <<uploaded_files, question, button, rendered, trigger, dropped,
                   error, fi, acc, texts, docs, vector_db, graph, aq_docs, prompt,
                   llm_out, answer, sources, figure>>

\* line 108
GraphStep ==
    /\ pc = "graph"
    /\ graph' = BuildGraph(triples)
    /\ ran' = ran \cup {"build_graph"}
    /\ pc' = "col1"
    /\ UNCHANGED <<uploaded_files, question, button, rendered, trigger, dropped,
                   error, fi, acc, texts, docs, vector_db, triples, aq_docs, prompt,
                   llm_out, answer, sources, figure>>

\* lines 112-116: the text input is rendered; a non-empty value is a question.
Col1 ==
    /\ pc = "col1"
    /\ rendered' = rendered \cup {"text_input"}
    /\ pc' = IF question # <<>> THEN "ask" ELSE "col2"
    /\ UNCHANGED <<uploaded_files, question, button, trigger, dropped, error, ran,
                   fi, acc, texts, docs, vector_db, triples, graph, aq_docs, prompt,
                   llm_out, answer, sources, figure>>

\* lines 53-67: retrieval, context and prompt.
AskRetrieve ==
    /\ pc = "ask"
    /\ aq_docs' = Retrieve(vector_db, question)
    /\ prompt' = BuildPrompt(aq_docs', question)
    /\ pc' = "generate"
    /\ UNCHANGED <<uploaded_files, question, button, rendered, trigger, dropped,
                   error, ran, fi, acc, texts, docs, vector_db, triples, graph,
                   llm_out, answer, sources, figure>>

\* lines 68-69 and 117-119: the generation call and the return.
AskGenerate ==
    /\ pc = "generate"
    /\ \E out \in LlmResults :
        /\ llm_out' = out
        /\ answer' = FirstGeneration(out)
    /\ sources' = aq_docs
    /\ ran' = ran \cup {"ask_question"}
    /\ pc' = "col2"
    /\ UNCHANGED <<uploaded_files, question, button, rendered, trigger, dropped,
                   error, fi, acc, texts, docs, vector_db, triples, graph, aq_docs,
                   prompt, figure>>

\* lines 121-131: the button is rendered; in the execution its press started,
\* the graph is drawn.  The script ends.
Col2 ==
    /\ pc = "col2"
    /\ rendered' = rendered \cup {"button"}
    /\ IF button
         THEN /\ figure' = graph
              /\ ran' = ran \cup {"nx.draw"}
         ELSE UNCHANGED <<figure, ran>>
    /\ button' = FALSE
    /\ pc' = "idle"
    /\ UNCHANGED <<uploaded_files, question, trigger, dropped, error,
                   fi, acc, texts, docs, vector_db, triples, graph, aq_docs, prompt,
                   llm_out, answer, sources>>

Next ==
    \/ Upload
    \/ SubmitQuestion
    \/ PressButton
    \/ IfUploadedFiles
    \/ ExtractFile
    \/ ExtractReturn
    \/ ChunkStep
    \/ IndexStep
    \/ TriplesStep
    \/ GraphStep
    \/ Col1
    \/ AskRetrieve
    \/ AskGenerate
    \/ Col2

Spec == Init /\ [][Next]_vars

\* ------------------------------------------------------------ the functions on their own
\* extract_text_from_pdfs on every list of files with pages drawn from PageTexts.
PageTexts == {<<>>, <<"Alice">>, <<"Bob", "met", "Alice">>}

GenFiles ==
    {[readable |-> TRUE, pages |-> ps] : ps \in SeqsUpTo(PageTexts, MaxPages)}
        \cup {PdfBad}

InitExtract ==
    /\ Blank
    /\ uploaded_files \in SeqsUpTo(GenFiles, MaxFiles)
    /\ question = <<>>
    /\ trigger = "upload"
    /\ pc = "extract"
    /\ texts = <<>>
    /\ vector_db = NoIndex

NextExtract == ExtractFile \/ ExtractReturn

SpecExtract == InitExtract /\ [][NextExtract]_vars

\* extract_triples and build_graph on every list of texts drawn from GraphTexts.
GraphTexts ==
    { <<>>,
      <<"met">>,
      <<"Alice">>,
      <<"Alice", "Bob">>,
      <<"Bob", "met", "Alice">>,
      <<"Alice", "met", "Bob", "alice">>,
      <<"Bob", "Paris", "Alice">>,
      <<"Paris", "Paris">>,
      <<"alice", "Paris", "alice", "Paris">> }

InitGraph ==
    /\ Blank
    /\ uploaded_files = <<>>
    /\ question = <<>>
    /\ trigger = "upload"
    /\ pc = "triples"
    /\ texts \in SeqsUpTo(GraphTexts, MaxTexts)
    /\ vector_db = NoIndex

NextGraph == TriplesStep \/ GraphStep

SpecGraph == InitGraph /\ [][NextGraph]_vars

\* ask_question on every index of 1..MaxChunks chunks and every question.
ChunkTexts == {<<"Alice", "met", "Bob">>, <<"Bob", "Paris", "Paris">>, <<"Paris">>}

InitAsk ==
    /\ Blank
    /\ uploaded_files = <<>>
    /\ question \in Questions \ {<<>>}
    /\ trigger = "question"
    /\ pc = "ask"
    /\ texts \in SeqsUpTo(ChunkTexts, MaxChunks) \ {<<>>}
    /\ vector_db = CreateVectorStore(ChunkText(texts))

NextAsk == AskRetrieve \/ AskGenerate

SpecAsk == InitAsk /\ [][NextAsk]_vars

\* ------------------------------------------------------------ properties
Pipeline ==
    {"extract_text_from_pdfs", "chunk_text", "create_vector_store",
     "extract_triples", "build_graph"}

IsPageOfUpload(t) ==
    \E f \in DOMAIN uploaded_files : \E p \in DOMAIN uploaded_files[f].pages :
        uploaded_files[f].pages[p] = t

TextPages ==
    UNION {{<<f, p>> : p \in {q \in DOMAIN uploaded_files[f].pages :
                                 uploaded_files[f].pages[q] # <<>>}} :
           f \in DOMAIN uploaded_files}

AdjacentIn(ents, n, m) ==
    \E i \in 1..(Len(ents) - 1) :
        \/ ents[i] = n /\ ents[i + 1] = m
        \/ ents[i] = m /\ ents[i + 1] = n

\* C1: in every state, what the index, the texts and the graph hold comes from
\* the files selected now and from nothing else: every indexed chunk and every
\* edge stems from a page of the current selection, and once the index (the
\* graph) is built no text-bearing page (no adjacent entity pair) of the
\* current selection is missing from it.
C1_IndexIsCurrentUpload ==
    /\ \A t \in DOMAIN texts : IsPageOfUpload(texts[t])
    /\ \A d \in DOMAIN vector_db.docs : IsPageOfUpload(vector_db.docs[d].page_content)
    /\ Len(vector_db.vecs) = Len(vector_db.docs)
    /\ \A n \in DOMAIN graph.adj : \A m \in DOMAIN graph.adj[n] :
          \E f \in DOMAIN uploaded_files : \E p \in DOMAIN uploaded_files[f].pages :
              AdjacentIn(NlpEnts(uploaded_files[f].pages[p]), n, m)
    /\ "create_vector_store" \in ran =>
          /\ Len(vector_db.docs) = Cardinality(TextPages)
          /\ \A fp \in TextPages : \E d \in DOMAIN vector_db.docs :
                vector_db.docs[d].page_content = uploaded_files[fp[1]].pages[fp[2]]
    /\ "build_graph" \in ran =>
          \A f \in DOMAIN uploaded_files : \A p \in DOMAIN uploaded_files[f].pages :
              LET ents == NlpEnts(uploaded_files[f].pages[p])
              IN  \A i \in 1..(Len(ents) - 1) :
                      /\ ents[i] \in DOMAIN graph.adj
                      /\ ents[i + 1] \in DOMAIN graph.adj[ents[i]]

\* An upload has removed an indexed text, and index and graph are rebuilt.
C1_Witness ==
    /\ dropped
    /\ Pipeline \subseteq ran
    /\ Len(vector_db.docs) >= 1
    /\ graph.node # <<>>

\* C2: an execution started by a question or by the button press runs none of
\* extraction, chunking, index construction or graph construction: those run
\* only in the execution an upload starts.
C2_BuiltOncePerUpload ==
    trigger \in {"question", "button"} => ran \cap Pipeline = {}

PageCount(files) ==
    SumSeq([f \in DOMAIN files |-> Len(files[f].pages)])

\* C3: once extract_text_from_pdfs has returned, texts has one entry per page of
\* the files, the entry of page p of file f stands after the entries of all
\* pages of the files before f and of the pages before p, and empty page texts
\* are entries like any other.
C3_OneTextPerPage ==
    "extract_text_from_pdfs" \in ran =>
        /\ Len(texts) = PageCount(uploaded_files)
        /\ \A f \in DOMAIN uploaded_files : \A p \in DOMAIN uploaded_files[f].pages :
              texts[PageCount(SubSeq(uploaded_files, 1, f - 1)) + p]
                  = uploaded_files[f].pages[p]

\* Two files, an empty page text followed by a non-empty one.
C3_Witness ==
    /\ "extract_text_from_pdfs" \in ran
    /\ Len(uploaded_files) = 2
    /\ Len(uploaded_files[1].pages) >= 1
    /\ Len(uploaded_files[2].pages) >= 1
    /\ \E i \in DOMAIN texts : \E j \in DOMAIN texts :
          i < j /\ texts[i] = <<>> /\ texts[j] # <<>>

HasUnreadable ==
    \E f \in DOMAIN uploaded_files : ~uploaded_files[f].readable

\* C9: with an unreadable file in the selection, the execution ends in the
\* extraction with an uncaught error: texts is never bound (whatever the
\* readable files before it gave is lost), nothing is chunked, indexed or
\* built, no question is answered, no graph is drawn, and the page offers no
\* widget to try again with.
C9_UnreadableFileAbortsRun ==
    HasUnreadable =>
        /\ pc \in {"L100", "extract", "idle"}
        /\ ran = {}
        /\ texts = <<>> /\ docs = <<>> /\ vector_db = NoIndex
        /\ triples = <<>> /\ graph = EmptyGraph
        /\ answer = <<>> /\ sources = <<>> /\ figure = EmptyGraph
        /\ rendered = {}
        /\ pc = "idle" => (error = "PdfReadError" /\ acc = <<>>)

\* The execution died on the second file after the first had given page texts.
C9_Witness ==
    /\ Len(uploaded_files) = 2
    /\ uploaded_files[1].readable
    /\ uploaded_files[1].pages # <<>>
    /\ ~uploaded_files[2].readable
    /\ pc = "idle"
    /\ error = "PdfReadError"
    /\ fi = 2

NoTextInUpload ==
    \A f \in DOMAIN uploaded_files : \A p \in DOMAIN uploaded_files[f].pages :
        uploaded_files[f].pages[p] = <<>>

\* C10: ask_question runs only in an execution with a non-empty selection, a
\* non-empty question and an index that was built and holds at least one
\* chunk; a selection without any page text never gets to it.
C10_NeverAskEmptyIndex ==
    /\ (pc \in {"ask", "generate"} \/ "ask_question" \in ran) =>
          /\ uploaded_files # <<>>
          /\ question # <<>>
          /\ "create_vector_store" \in ran
          /\ Len(vector_db.docs) >= 1
          /\ error = "none"
    /\ NoTextInUpload =>
          /\ pc \notin {"triples", "graph", "col1", "ask", "generate", "col2"}
          /\ "ask_question" \notin ran
          /\ rendered = {}

\* A question is being answered over a selection that has a page without text.
C10_Witness ==
    /\ pc = "ask"
    /\ \E f \in DOMAIN uploaded_files :
          \/ uploaded_files[f].pages = <<>>
          \/ \E p \in DOMAIN uploaded_files[f].pages : uploaded_files[f].pages[p] = <<>>

\* An undirected edge is the set of its one or two endpoints.
EdgeSet(G) ==
    UNION {{{n, m} : m \in DOMAIN G.adj[n]} : n \in DOMAIN G.adj}

ConsecutivePairs(txts) ==
    UNION {{{NlpEnts(txts[t])[i], NlpEnts(txts[t])[i + 1]} :
                i \in 1..(Len(NlpEnts(txts[t])) - 1)} : t \in DOMAIN txts}

\* C4: the graph built from texts has as edges exactly the pairs of entities
\* that stand next to each other in the entity list of one text, every edge
\* labelled "related_to", and as nodes exactly the endpoints of its edges.  So
\* a single text with three distinct entities A, B, C gives A-B and B-C and not
\* A-C, the last entity of a text is linked to the first of the next only if
\* some text has the two side by side, and texts with fewer than two entities
\* each give the empty graph.
C4_EdgesAreConsecutivePairs ==
    "build_graph" \in ran =>
        /\ EdgeSet(graph) = ConsecutivePairs(texts)
        /\ \A n \in DOMAIN graph.adj : \A m \in DOMAIN graph.adj[n] :
              graph.adj[n][m] = "related_to"
        /\ Range(graph.node) = UNION ConsecutivePairs(texts)
        /\ DOMAIN graph.adj = Range(graph.node)
        /\ \A t \in DOMAIN texts :
              LET e == NlpEnts(texts[t])
              IN  /\ (Len(texts) = 1 /\ Len(e) = 3 /\ Cardinality(Range(e)) = 3) =>
                        /\ EdgeSet(graph) = {{e[1], e[2]}, {e[2], e[3]}}
                        /\ {e[1], e[3]} \notin EdgeSet(graph)
                  /\ (t < Len(texts) /\ e # <<>> /\ NlpEnts(texts[t + 1]) # <<>>
                        /\ {e[Len(e)], NlpEnts(texts[t + 1])[1]} \in EdgeSet(graph)) =>
                        \E u \in DOMAIN texts :
                            AdjacentIn(NlpEnts(texts[u]), e[Len(e)],
                                       NlpEnts(texts[t + 1])[1])
        /\ (\A t \in DOMAIN texts : Len(NlpEnts(texts[t])) < 2) =>
              /\ graph.node = <<>>
              /\ DOMAIN graph.adj = {}

\* Two texts with entities; the last entity of the first and the first entity
\* of the second are not linked, and the first text has three distinct entities.
C4_Witness ==
    /\ "build_graph" \in ran
    /\ Len(texts) = 2
    /\ Cardinality(Range(NlpEnts(texts[1]))) = 3
    /\ Len(NlpEnts(texts[2])) >= 2
    /\ {NlpEnts(texts[1])[3], NlpEnts(texts[2])[1]} \notin EdgeSet(graph)
    /\ Cardinality(EdgeSet(graph)) >= 3

\* C5: the graph built is a simple undirected graph: no node is its own
\* neighbour, and m is a neighbour of n exactly when n is a neighbour of m,
\* under one and the same label.
C5_SimpleGraph ==
    "build_graph" \in ran =>
        /\ \A n \in DOMAIN graph.adj : n \notin DOMAIN graph.adj[n]
        /\ \A n \in DOMAIN graph.adj : \A m \in DOMAIN graph.adj[n] :
              /\ m \in DOMAIN graph.adj
              /\ n \in DOMAIN graph.adj[m]
              /\ graph.adj[m][n] = graph.adj[n][m]

GraphOf(txts) == BuildGraph(ExtractTriples(txts))

Neighbours(G, n) == IF n \in DOMAIN G.adj THEN DOMAIN G.adj[n] ELSE {}

Orderings(n) ==
    {f \in [1..n -> 1..n] : \A i \in 1..n : \A j \in 1..n : f[i] = f[j] => i = j}

\* C6: cut the texts anywhere into a first and a second part: the graph of all
\* texts has the nodes and the edges of the graphs of the two parts together, a
\* string is one node whose neighbours are those it has in either part, and
\* the texts in any other order give the same nodes, edges and labels.
C6_MergeIsEdgeUnion ==
    "build_graph" \in ran =>
        /\ Len(graph.node) = Cardinality(Range(graph.node))
        /\ \A k \in 0..Len(texts) :
              LET G1 == GraphOf(SubSeq(texts, 1, k))
                  G2 == GraphOf(SubSeq(texts, k + 1, Len(texts)))
              IN  /\ Range(graph.node) = Range(G1.node) \cup Range(G2.node)
                  /\ EdgeSet(graph) = EdgeSet(G1) \cup EdgeSet(G2)
                  /\ \A n \in Range(graph.node) :
                        Neighbours(graph, n) = Neighbours(G1, n) \cup Neighbours(G2, n)
        /\ \A f \in Orderings(Len(texts)) :
              LET Gp == GraphOf([i \in DOMAIN texts |-> texts[f[i]]])
              IN  /\ Range(Gp.node) = Range(graph.node)
                  /\ Gp.adj = graph.adj

\* Two texts share an entity that has a neighbour in each which it does not
\* have in the other, and "Alice" and "alice" are both nodes.
C6_Witness ==
    /\ "build_graph" \in ran
    /\ Len(texts) = 2
    /\ \E n \in Range(graph.node) :
          /\ Neighbours(GraphOf(<<texts[1]>>), n) \ Neighbours(GraphOf(<<texts[2]>>), n) # {}
          /\ Neighbours(GraphOf(<<texts[2]>>), n) \ Neighbours(GraphOf(<<texts[1]>>), n) # {}
    /\ {"Alice", "alice"} \subseteq Range(graph.node)

Retrieved == pc = "generate" \/ "ask_question" \in ran

\* C7: the retrieval step returns min(3, n) chunks of an index of n chunks:
\* they stand at pairwise different positions of the index, each is at least
\* as near to the question as the one after it, and no chunk left out is
\* nearer than a chunk returned.
C7_ThreeNearest ==
    Retrieved =>
        LET n == Len(vector_db.docs)
            D(i) == Distance(vector_db.vecs[i], Embed(question))
        IN  /\ Len(aq_docs) = IF n < 3 THEN n ELSE 3
            /\ \E idx \in [DOMAIN aq_docs -> 1..n] :
                  /\ \A i \in DOMAIN idx : \A j \in DOMAIN idx :
                        /\ idx[i] = idx[j] => i = j
                        /\ i < j => D(idx[i]) <= D(idx[j])
                  /\ \A i \in DOMAIN idx : aq_docs[i] = vector_db.docs[idx[i]]
                  /\ \A o \in (1..n) \ Range(idx) : \A i \in DOMAIN idx :
                        D(o) >= D(idx[i])

\* Three of more than three chunks were returned, the first strictly nearer
\* than the last, and the nearest chunk is not the first of the index.
C7_Witness ==
    /\ pc = "generate"
    /\ Len(vector_db.docs) > 3
    /\ Len(aq_docs) = 3
    /\ Distance(Embed(aq_docs[1].page_content), Embed(question))
          < Distance(Embed(aq_docs[3].page_content), Embed(question))
    /\ aq_docs[1] # vector_db.docs[1]

\* Position in the prompt before the first word of the i-th source.
SourceStart(src, i) ==
    1 + SumSeq([m \in 1..(i - 1) |-> Len(src[m].page_content) + 1])

ContextLen(src) ==
    SumSeq([i \in DOMAIN src |-> Len(src[i].page_content)])
        + (IF Len(src) > 0 THEN Len(src) - 1 ELSE 0)

\* C8: once ask_question has returned, the prompt it gave the model is the
\* instruction with the fallback sentence, then the texts of the sources in
\* their order with one newline between neighbours, then the question as it
\* was asked; the answer is the first generation of the model; and the sources
\* are the retrieved chunks in the order of retrieval.
C8_PromptAnswerSources ==
    "ask_question" \in ran =>
        LET c == ContextLen(sources)
        IN  /\ sources = aq_docs
            /\ Len(prompt) = 1 + c + 1 + Len(question) + 1
            /\ prompt[1] = PromptHead
            /\ \A i \in DOMAIN sources :
                  /\ \A j \in DOMAIN sources[i].page_content :
                        prompt[SourceStart(sources, i) + j] = sources[i].page_content[j]
                  /\ i > 1 => prompt[SourceStart(sources, i)] = "\n"
            /\ prompt[2 + c] = PromptMid
            /\ \A j \in DOMAIN question : prompt[2 + c + j] = question[j]
            /\ prompt[3 + c + Len(question)] = PromptTail
            /\ answer = llm_out[1].generated_text

\* Three different sources, and a model that returned two different generations.
C8_Witness ==
    /\ "ask_question" \in ran
    /\ Len(sources) = 3
    /\ sources[1] # sources[3]
    /\ Len(llm_out) = 2
    /\ llm_out[1] # llm_out[2]

====
